---- MODULE Spec2Model ----
(***************************************************************************)
(* Model of src/main.go: the bulk deletion of a versioned S3 bucket.       *)
(*                                                                         *)
(* The main goroutine walks the pages of ListObjectVersionsPages; for each *)
(* page it launches one goroutine per delete marker (deleteMarkers), waits *)
(* on that call's WaitGroup, launches one goroutine per version            *)
(* (deleteVersions) and waits again.  It then walks ListObjectsV2Pages the *)
(* same way with deleteObjects, and at last calls DeleteBucket.  Every     *)
(* goroutine runs deleteS3Object: backoff.Retry around svc.DeleteObject.   *)
(***************************************************************************)
EXTENDS Integers, Sequences, FiniteSets, TLC

\* ---------------------------------------------------------------- bounds
\* Entries of one kind (markers, versions, objects) a listing page holds.
MaxEntries == 2
\* Pages a listing returns before the backend reports the last page.
MaxPages == 2
\* Delete attempts backoff.Retry makes before its elapsed-time budget
\* (MaxElapsedTime) is certainly spent.
MaxAttempts == 2

\* deleteWorker goroutines started on one jobs channel.
NumWorkers == 2

\* The attempts of deleteWorker's inner loop: for i := 0; i < 4; i++.
WorkerAttempts == 4

\* The fixed worker count N of the specification.  The source fixes none;
\* the pool size is taken below the page size, as the claim says the limit
\* does not depend on how many entries a page holds.
WorkerCount == MaxEntries - 1

VARIABLES
    pc,            \* position of the main goroutine
    bucketName,    \* the -b flag (*bucketName), "unknown" when not given
    bucketRegion,  \* what getRegion returned, "" before the call
    verbosity,     \* the -v flag (*verbosity)
    vPages,        \* pages ListObjectVersionsPages has handed to its callback
    oPages,        \* pages ListObjectsV2Pages has handed to its callback
    page,          \* the page the callback is working on
    i,             \* entries of the current slice the range loop has launched
    wg,            \* the WaitGroup of the running deleteMarkers/Versions/Objects
    jobs,          \* the deleteS3Object goroutines, in launch order
    bucketCalls,   \* DeleteBucket calls issued
    bucketResult,  \* what DeleteBucket returned: "none", "ok", "err"
    exitCode,      \* process exit status, -1 while running
    listErr,       \* the listing that returned an error: "none", "versions", "objects"
    vLast,         \* lastPage of the latest ListObjectVersionsPages page
    listedAny,     \* some page so far held an entry
    pending,       \* listed entries that no DeleteObject call has targeted yet
    jobsChan,      \* the jobs channel of deleteWorker: what it holds, and closed
    workers,       \* the deleteWorker goroutines
    workerWg       \* the WaitGroup the deleteWorker goroutines were handed

mainVars == <<pc, bucketName, bucketRegion, verbosity, vPages, oPages, page, i,
              wg, jobs, bucketCalls, bucketResult, exitCode, listErr, vLast,
              listedAny, pending>>

workerVars == <<jobsChan, workers, workerWg>>

vars == <<mainVars, workerVars>>

\* ------------------------------------------------------------ data shapes
BucketName == "b"
Kinds == {"Marker", "Version", "Object"}
Terminal == {"Done", "Fatal", "Panic"}

NoPage == [markers |-> 0, versions |-> 0, objects |-> 0, last |-> FALSE]
NoWg == [kind |-> "none", page |-> 0, n |-> 0]

\* The entry of a page: which listing slice it sits in, and where.
Entry(kind, p, idx) == [kind |-> kind, page |-> p, idx |-> idx]

\* The VersionId the listing gives for an entry; deleteObjects sets none,
\* which leaves the pointer nil.
VersionIdOf(kind, p, idx) == <<"version", kind, p, idx>>

\* An input that always takes the first element of the slice.
DeleteObjectInputFirst(kind, p, idx) ==
    [Key       |-> Entry(kind, p, 1),
     VersionId |-> IF kind = "Object" THEN {} ELSE {VersionIdOf(kind, p, 1)},
     Bucket    |-> bucketName]

\* s3.DeleteObjectInput as deleteMarkers, deleteVersions and deleteObjects
\* build it.  A pointer field is the set of what it points to: {} is nil.
DeleteObjectInput(kind, p, idx) ==
    [Key       |-> Entry(kind, p, idx),
     VersionId |-> IF kind = "Object" THEN {} ELSE {VersionIdOf(kind, p, idx)},
     Bucket    |-> bucketName]

\* A goroutine running deleteS3Object(s3Object, &wg, svc, deleteType).
NewJob(kind, p, idx) ==
    [input      |-> DeleteObjectInput(kind, p, idx),
     deleteType |-> kind,
     wgOf       |-> [kind |-> kind, page |-> p],
     st         |-> "ready",
     targets    |-> {},
     attempts   |-> 0,
     fails      |-> 0,
     oks        |-> 0,
     warns      |-> 0]

\* A loop bound one past the slice.
CountPlusOne(kind) ==
    1 + (CASE kind = "Marker"  -> page.markers
           [] kind = "Version" -> page.versions
           [] kind = "Object"  -> page.objects)

\* len(page.DeleteMarkers), len(page.Versions), len(page.Contents)
Count(kind) ==
    CASE kind = "Marker"  -> page.markers
      [] kind = "Version" -> page.versions
      [] kind = "Object"  -> page.objects

PageNo(kind) == IF kind = "Object" THEN oPages ELSE vPages

PcOf(kind) ==
    CASE kind = "Marker"  -> "deleteMarkers"
      [] kind = "Version" -> "deleteVersions"
      [] kind = "Object"  -> "deleteObjects"


\* ----------------------------------------------------- primitive operations
\* A Wait that does not wait.
WaitReturnsAlways(w) == TRUE

\* sync.WaitGroup: Wait returns when the counter is zero.
WaitReturns(w) == w.n = 0

\* A launch loop that forgets wg.Add.
WgAddNone(w) == w

\* wg.Add(1)
WgAdd(w) == [w EXCEPT !.n = @ + 1]

\* A goroutine that calls wg.Done() only when its delete succeeded, and one
\* that calls it a second time besides the deferred call.
WgDoneOnSuccess(w, j) ==
    IF j.oks > 0 /\ j.wgOf.kind = w.kind /\ j.wgOf.page = w.page
    THEN [w EXCEPT !.n = @ - 1]
    ELSE w

WgDoneTwice(w, j) ==
    IF j.wgOf.kind = w.kind /\ j.wgOf.page = w.page
    THEN [w EXCEPT !.n = @ - 2]
    ELSE w

\* defer wg.Done() of a goroutine, on the WaitGroup it was handed.
WgDone(w, j) ==
    IF j.wgOf.kind = w.kind /\ j.wgOf.page = w.page
    THEN [w EXCEPT !.n = @ - 1]
    ELSE w

\* var wg sync.WaitGroup
NewWg(kind, p) == [kind |-> kind, page |-> p, n |-> 0]

\* The range loop's step to the next slice element.
NextIndex(n) == n + 1

\* The callbacks' return values: the paginator goes on to the next page when
\* the callback returns true and the page is not the last one.
VersionsCallbackInverted(lastPage) == lastPage

VersionsCallback(lastPage) == ~lastPage

ObjectsCallbackStops(lastPage) == FALSE

ObjectsCallback(lastPage) == TRUE
NextPageWanted(ret, lastPage) == ret /\ ~lastPage

\* *s3Object.VersionId in a Printf argument list: a nil pointer dereference
\* when deleteObjects built the input.
DerefPanics(j) == j.input.VersionId = {}

\* backoff.Retry after a failed operation: NextBackOff() may still grant a
\* retry while the elapsed-time budget lasts.
RetryGranted(j) == j.attempts < MaxAttempts

\* main's checks of the bucket name and of the region getRegion returned.
NameMissingNever(name) == FALSE

NameMissing(name) == name = "unknown"
RegionMissing(region) == region = "unknown"

\* exitErrorf: os.Exit(1); a return from main: exit status 0; an unrecovered
\* panic: exit status 2.
ExitCodeOf(p) ==
    CASE p = "Fatal" -> 1
      [] p = "Done"  -> 0
      [] p = "Panic" -> 2
      [] OTHER       -> -1

\* A deleteBucket that calls again after an error, and one that drops it.
AfterDeleteBucketRetries(err) == IF err THEN "deleteBucket" ELSE "Done"

AfterDeleteBucketIgnores(err) == "Done"

\* deleteBucket after svc.DeleteBucket returned.
AfterDeleteBucket(err) == IF err THEN "Fatal" ELSE "Done"

\* Goroutines that have returned leave nothing behind.
Live(js) == SelectSeq(js, LAMBDA j : j.st # "done")

PageEntries(kind, p, n) == {Entry(kind, p, idx) : idx \in 1..n}

\* main makes no jobs channel and starts no deleteWorker.
NoChan == [q |-> <<>>, closed |-> FALSE]

\* ------------------------------------------------------------------- Init
Init ==
    /\ pc = "main"
    /\ bucketName \in {"unknown", BucketName}
    /\ bucketRegion = ""
    /\ verbosity \in BOOLEAN
    /\ vPages = 0
    /\ oPages = 0
    /\ page = NoPage
    /\ i = 0
    /\ wg = NoWg
    /\ jobs = <<>>
    /\ bucketCalls = 0
    /\ bucketResult = "none"
    /\ exitCode = -1
    /\ listErr = "none"
    /\ vLast = FALSE
    /\ listedAny = FALSE
    /\ pending = {}
    /\ jobsChan = NoChan
    /\ workers = <<>>
    /\ workerWg = 0

\* ------------------------------------------------------- the main goroutine
\* main, up to the call of deleteAllVersions: the three fatal usage errors.
CheckBucketName ==
    /\ pc = "main"
    /\ pc' = IF NameMissing(bucketName) THEN "Fatal" ELSE "getRegion"
    /\ exitCode' = ExitCodeOf(pc')
    /\ UNCHANGED <<workerVars, bucketName, bucketRegion, listedAny, verbosity, vPages, oPages, page, i, wg, jobs, bucketCalls,
                   bucketResult, listErr, vLast, pending>>

GetRegion ==
    /\ pc = "getRegion"
    /\ \E region \in {"unknown", "us-west-2"} :
         /\ bucketRegion' = region
         /\ pc' = IF RegionMissing(region) THEN "Fatal" ELSE "NewSession"
    /\ exitCode' = ExitCodeOf(pc')
    /\ UNCHANGED <<workerVars, bucketName, listedAny, verbosity, vPages, oPages, page, i, wg, jobs, bucketCalls,
                   bucketResult, listErr, vLast, pending>>

NewSession ==
    /\ pc = "NewSession"
    /\ \E err \in BOOLEAN :
         pc' = IF err THEN "Fatal" ELSE "ListObjectVersionsPages"
    /\ exitCode' = ExitCodeOf(pc')
    /\ UNCHANGED <<workerVars, bucketName, bucketRegion, listedAny, verbosity, vPages, oPages, page, i, wg, jobs, bucketCalls,
                   bucketResult, listErr, vLast, pending>>

\* ListObjectVersionsPages hands the next page to the callback, which enters
\* deleteMarkers.
VersionsPage ==
    /\ pc = "ListObjectVersionsPages"
    /\ vPages < MaxPages
    /\ \E m \in 0..MaxEntries, v \in 0..MaxEntries, last \in BOOLEAN :
         /\ (vPages + 1 = MaxPages) => last
         /\ page' = [markers |-> m, versions |-> v, objects |-> 0, last |-> last]
         /\ pending' = pending \cup PageEntries("Marker", vPages + 1, m)
                               \cup PageEntries("Version", vPages + 1, v)
    /\ vPages' = vPages + 1
    /\ pc' = "deleteMarkers"
    /\ i' = 0
    /\ wg' = NewWg("Marker", vPages + 1)
    /\ vLast' = page'.last
    /\ listedAny' = (listedAny \/ page'.markers + page'.versions > 0)
    /\ UNCHANGED <<workerVars, bucketName, bucketRegion, verbosity, oPages, jobs, bucketCalls, bucketResult,
                   exitCode, listErr>>

\* ListObjectVersionsPages returns an error: exitErrorf.
VersionsListError ==
    /\ pc = "ListObjectVersionsPages"
    /\ listErr' = "versions"
    /\ pc' = "Fatal"
    /\ exitCode' = ExitCodeOf(pc')
    /\ UNCHANGED <<workerVars, bucketName, bucketRegion, listedAny, verbosity, vPages, oPages, page, i, wg, jobs, bucketCalls,
                   bucketResult, vLast, pending>>

\* One turn of the range loop of deleteMarkers, deleteVersions or
\* deleteObjects: wg.Add(1); go deleteS3Object(...).
Launch(kind) ==
    /\ pc = PcOf(kind)
    /\ i < Count(kind)
    /\ wg' = WgAdd(wg)
    /\ jobs' = Append(jobs, NewJob(kind, PageNo(kind), i + 1))
    /\ i' = NextIndex(i)
    /\ UNCHANGED <<workerVars, bucketName, bucketRegion, listedAny, pc, verbosity, vPages, oPages, page, bucketCalls,
                   bucketResult, exitCode, listErr, vLast, pending>>

\* deleteMarkers(...).Wait() returns; the callback enters deleteVersions.
WaitMarkers ==
    /\ pc = "deleteMarkers"
    /\ i >= Count("Marker")
    /\ WaitReturns(wg)
    /\ pc' = "deleteVersions"
    /\ i' = 0
    /\ wg' = NewWg("Version", vPages)
    /\ jobs' = Live(jobs)
    /\ UNCHANGED <<workerVars, bucketName, bucketRegion, listedAny, verbosity, vPages, oPages, page, bucketCalls, bucketResult,
                   exitCode, listErr, vLast, pending>>

\* deleteVersions(...).Wait() returns; the callback returns !lastPage.
WaitVersions ==
    /\ pc = "deleteVersions"
    /\ i >= Count("Version")
    /\ WaitReturns(wg)
    /\ pc' = IF NextPageWanted(VersionsCallback(page.last), page.last)
             THEN "ListObjectVersionsPages"
             ELSE "ListObjectsV2Pages"
    /\ i' = 0
    /\ wg' = NoWg
    /\ jobs' = Live(jobs)
    /\ UNCHANGED <<workerVars, bucketName, bucketRegion, listedAny, verbosity, vPages, oPages, page, bucketCalls, bucketResult,
                   exitCode, listErr, vLast, pending>>

\* ListObjectsV2Pages hands the next page to the callback, which enters
\* deleteObjects.
ObjectsPage ==
    /\ pc = "ListObjectsV2Pages"
    /\ oPages < MaxPages
    /\ \E o \in 0..MaxEntries, last \in BOOLEAN :
         /\ (oPages + 1 = MaxPages) => last
         /\ page' = [markers |-> 0, versions |-> 0, objects |-> o, last |-> last]
         /\ pending' = pending \cup PageEntries("Object", oPages + 1, o)
    /\ oPages' = oPages + 1
    /\ pc' = "deleteObjects"
    /\ i' = 0
    /\ wg' = NewWg("Object", oPages + 1)
    /\ listedAny' = (listedAny \/ page'.objects > 0)
    /\ UNCHANGED <<workerVars, bucketName, bucketRegion, verbosity, vPages, jobs, bucketCalls, bucketResult,
                   exitCode, listErr, vLast>>

\* ListObjectsV2Pages returns an error: err is assigned and never read,
\* deleteAllVersions returns true and main goes on to deleteBucket.
ObjectsListError ==
    /\ pc = "ListObjectsV2Pages"
    /\ listErr' = "objects"
    /\ pc' = "deleteBucket"
    /\ UNCHANGED <<workerVars, bucketName, bucketRegion, listedAny, verbosity, vPages, oPages, page, i, wg, jobs, bucketCalls,
                   bucketResult, exitCode, vLast, pending>>

\* deleteObjects(...).Wait() returns; the callback returns true.
WaitObjects ==
    /\ pc = "deleteObjects"
    /\ i >= Count("Object")
    /\ WaitReturns(wg)
    /\ pc' = IF NextPageWanted(ObjectsCallback(page.last), page.last)
             THEN "ListObjectsV2Pages"
             ELSE "deleteBucket"
    /\ i' = 0
    /\ wg' = NoWg
    /\ jobs' = Live(jobs)
    /\ UNCHANGED <<workerVars, bucketName, bucketRegion, listedAny, verbosity, vPages, oPages, page, bucketCalls, bucketResult,
                   exitCode, listErr, vLast, pending>>

\* deleteBucket: svc.DeleteBucket is issued ...
DeleteBucketCall ==
    /\ pc = "deleteBucket"
    /\ pc' = "DeleteBucket"
    /\ bucketCalls' = bucketCalls + 1
    /\ UNCHANGED <<workerVars, bucketName, bucketRegion, listedAny, verbosity, vPages, oPages, page, i, wg, jobs, bucketResult,
                   exitCode, listErr, vLast, pending>>

\* ... and returns: exitErrorf on an error, else main returns.
DeleteBucketReturn ==
    /\ pc = "DeleteBucket"
    /\ \E err \in BOOLEAN :
         /\ bucketResult' = IF err THEN "err" ELSE "ok"
         /\ pc' = AfterDeleteBucket(err)
    /\ exitCode' = ExitCodeOf(pc')
    /\ UNCHANGED <<workerVars, bucketName, bucketRegion, listedAny, verbosity, vPages, oPages, page, i, wg, jobs, bucketCalls,
                   listErr, vLast, pending>>

\* --------------------------------------------- the deleteS3Object goroutines
Running == pc \notin Terminal

\* The operation of backoff.Retry issues svc.DeleteObject(&s3Object).
CallDeleteObject(k) ==
    /\ Running
    /\ jobs[k].st = "ready"
    /\ jobs' = [jobs EXCEPT ![k].st = "calling", ![k].attempts = @ + 1,
                             ![k].targets = @ \cup {jobs[k].input}]
    /\ pending' = pending \ {jobs[k].input.Key}
    /\ UNCHANGED <<workerVars, bucketName, bucketRegion, listedAny, pc, verbosity, vPages, oPages, page, i, wg, bucketCalls,
                   bucketResult, exitCode, listErr, vLast>>

\* The goroutine after a DeleteObject call that returned no error, with the
\* verbosity flag v: the verbose line dereferences VersionId.
SuccessOutcome(j, v) ==
    IF v /\ DerefPanics(j)
    THEN [j EXCEPT !.oks = @ + 1, !.st = "panicking"]
    ELSE [j EXCEPT !.oks = @ + 1, !.st = "done"]

AfterSuccess(j) == SuccessOutcome(j, verbosity)

\* The goroutine after a DeleteObject call that returned an error: the
\* verbose line and the warning both dereference VersionId; the warning is
\* written, the error goes back to backoff.Retry, which retries or stops.
AfterFailure(j, retry) ==
    IF DerefPanics(j)
    THEN [j EXCEPT !.fails = @ + 1, !.st = "panicking"]
    ELSE [j EXCEPT !.fails = @ + 1, !.warns = @ + 1,
                   !.st = IF retry /\ RetryGranted(j) THEN "ready" ELSE "done"]

\* A goroutine that leaves deleteS3Object, by return or by panic, runs its
\* deferred wg.Done().
Leaves(j) == j.st \in {"done", "panicking"}

DeleteObjectOk(k) ==
    /\ Running
    /\ jobs[k].st = "calling"
    /\ LET j == AfterSuccess(jobs[k]) IN
         /\ jobs' = [jobs EXCEPT ![k] = j]
         /\ wg' = IF Leaves(j) THEN WgDone(wg, j) ELSE wg
    /\ UNCHANGED <<workerVars, bucketName, bucketRegion, listedAny, pc, verbosity, vPages, oPages, page, i, bucketCalls,
                   bucketResult, exitCode, listErr, vLast, pending>>

DeleteObjectErr(k) ==
    /\ Running
    /\ jobs[k].st = "calling"
    /\ \E retry \in BOOLEAN :
         LET j == AfterFailure(jobs[k], retry) IN
           /\ jobs' = [jobs EXCEPT ![k] = j]
           /\ wg' = IF Leaves(j) THEN WgDone(wg, j) ELSE wg
    /\ UNCHANGED <<workerVars, bucketName, bucketRegion, listedAny, pc, verbosity, vPages, oPages, page, i, bucketCalls,
                   bucketResult, exitCode, listErr, vLast, pending>>

\* The runtime ends the process once a panicking goroutine has run its
\* deferred calls.
Crash ==
    /\ Running
    /\ \E k \in DOMAIN jobs : jobs[k].st = "panicking"
    /\ pc' = "Panic"
    /\ exitCode' = ExitCodeOf(pc')
    /\ UNCHANGED <<workerVars, bucketName, bucketRegion, listedAny, verbosity, vPages, oPages, page, i, wg, jobs, bucketCalls,
                   bucketResult, listErr, vLast, pending>>

Next ==
    \/ CheckBucketName
    \/ GetRegion
    \/ NewSession
    \/ VersionsPage
    \/ VersionsListError
    \/ \E kind \in Kinds : Launch(kind)
    \/ WaitMarkers
    \/ WaitVersions
    \/ ObjectsPage
    \/ ObjectsListError
    \/ WaitObjects
    \/ DeleteBucketCall
    \/ DeleteBucketReturn
    \/ \E k \in DOMAIN jobs : CallDeleteObject(k)
    \/ \E k \in DOMAIN jobs : DeleteObjectOk(k)
    \/ \E k \in DOMAIN jobs : DeleteObjectErr(k)
    \/ Crash

Spec == Init /\ [][Next]_vars

\* The Go scheduler runs every runnable goroutine and every backend call
\* returns: some enabled step is taken in the end.
FairSpec == Spec /\ WF_vars(Next)


\* ------------------------------------------------------------ deleteWorker
\* main never starts deleteWorker.  It is run here on its own: NumWorkers
\* goroutines range over one buffered jobs channel that already holds its
\* jobs and is closed at some time.

\* What a deleteWorker works on before its first receive.
NoJob ==
    [input    |-> [Key |-> Entry("none", 0, 0), VersionId |-> {}, Bucket |-> ""],
     attempts |-> 0,
     fails    |-> 0,
     oks      |-> 0,
     warns    |-> 0]

\* The job a deleteWorker takes from the channel.
Received(input) == [NoJob EXCEPT !.input = input]

\* The channel contents the workers are run on: versions and plain objects.
ChanContents ==
    UNION {{[n \in 1..len |-> DeleteObjectInput(kinds[n], 1, n)] :
               kinds \in [1..len -> {"Version", "Object"}]} :
           len \in 0..MaxEntries}

WorkerInit ==
    /\ pc = "deleteWorker"
    /\ bucketName = BucketName
    /\ bucketRegion = "us-west-2"
    /\ verbosity \in BOOLEAN
    /\ vPages = 0
    /\ oPages = 0
    /\ page = NoPage
    /\ i = 0
    /\ wg = NoWg
    /\ jobs = <<>>
    /\ bucketCalls = 0
    /\ bucketResult = "none"
    /\ exitCode = -1
    /\ listErr = "none"
    /\ vLast = FALSE
    /\ listedAny = FALSE
    /\ pending = {}
    /\ jobsChan \in {[q |-> c, closed |-> FALSE] : c \in ChanContents}
    /\ workers = [w \in 1..NumWorkers |-> [st |-> "range", i |-> 0, cur |-> NoJob]]
    /\ workerWg = NumWorkers

\* for s3Object := range jobs: the next job is received.
WorkerReceive(w) ==
    /\ Running
    /\ workers[w].st = "range"
    /\ jobsChan.q # <<>>
    /\ workers' = [workers EXCEPT ![w] = [st  |-> "loop",
                                          i   |-> 0,
                                          cur |-> Received(Head(jobsChan.q))]]
    /\ jobsChan' = [jobsChan EXCEPT !.q = Tail(@)]
    /\ UNCHANGED <<mainVars, workerWg>>

\* The inner loop issues svc.DeleteObject(&s3Object).
WorkerCall(w) ==
    /\ Running
    /\ workers[w].st = "loop"
    /\ workers' = [workers EXCEPT ![w].st = "calling",
                                   ![w].cur.attempts = @ + 1]
    /\ UNCHANGED <<mainVars, jobsChan, workerWg>>

\* The rest of one turn of the inner loop, after DeleteObject returned: the
\* verbose line, the warning on an error, "continue" otherwise, and i++ with
\* the test i < 4 in either case.
AfterWorkerCall(wk, err) ==
    IF (verbosity \/ err) /\ DerefPanics(wk.cur)
    THEN [wk EXCEPT !.st = "panicking",
                    !.cur.fails = IF err THEN @ + 1 ELSE @,
                    !.cur.oks = IF err THEN @ ELSE @ + 1]
    ELSE [wk EXCEPT !.st = IF wk.i + 1 < WorkerAttempts THEN "loop" ELSE "range",
                    !.i = @ + 1,
                    !.cur.fails = IF err THEN @ + 1 ELSE @,
                    !.cur.warns = IF err THEN @ + 1 ELSE @,
                    !.cur.oks = IF err THEN @ ELSE @ + 1]

\* A deleteWorker that has left the function has run its deferred wg.Done().
WorkerLeft(wk) == wk.st \in {"returned", "panicking"}

WorkerReturn(w) ==
    /\ Running
    /\ workers[w].st = "calling"
    /\ \E err \in BOOLEAN :
         LET wk == AfterWorkerCall(workers[w], err) IN
           /\ workers' = [workers EXCEPT ![w] = wk]
           /\ workerWg' = IF WorkerLeft(wk) THEN workerWg - 1 ELSE workerWg
    /\ UNCHANGED <<mainVars, jobsChan>>

\* The range loop ends on a closed and drained channel; wg.Done() runs.
WorkerExit(w) ==
    /\ Running
    /\ workers[w].st = "range"
    /\ jobsChan.q = <<>>
    /\ jobsChan.closed
    /\ workers' = [workers EXCEPT ![w].st = "returned"]
    /\ workerWg' = workerWg - 1
    /\ UNCHANGED <<mainVars, jobsChan>>

\* The sender closes the jobs channel.
CloseJobs ==
    /\ Running
    /\ ~jobsChan.closed
    /\ jobsChan' = [jobsChan EXCEPT !.closed = TRUE]
    /\ UNCHANGED <<mainVars, workers, workerWg>>

\* The runtime ends the process after a deleteWorker's panic.
WorkerCrash ==
    /\ Running
    /\ \E w \in DOMAIN workers : workers[w].st = "panicking"
    /\ pc' = "Panic"
    /\ exitCode' = ExitCodeOf(pc')
    /\ UNCHANGED <<workerVars, bucketName, bucketRegion, verbosity, vPages,
                   oPages, page, i, wg, jobs, bucketCalls, bucketResult,
                   listErr, vLast, listedAny, pending>>

WorkerNext ==
    \/ \E w \in DOMAIN workers : WorkerReceive(w)
    \/ \E w \in DOMAIN workers : WorkerCall(w)
    \/ \E w \in DOMAIN workers : WorkerReturn(w)
    \/ \E w \in DOMAIN workers : WorkerExit(w)
    \/ CloseJobs
    \/ WorkerCrash

WorkerSpec == WorkerInit /\ [][WorkerNext]_vars

\* ------------------------------------------------------ shared vocabulary
\* A goroutine whose DeleteObject call is still to come or in flight.
Unfinished(j) == j.st \in {"ready", "calling"}

JobsOf(kind) == {k \in DOMAIN jobs : jobs[k].deleteType = kind}

InFlight == {k \in DOMAIN jobs : jobs[k].st = "calling"}

\* ------------------------------------------------------------------ claims

\* C1: for every page of the versions listing, a version deletion of the
\* page exists only after deleteMarkers has launched all of the page's marker
\* deletions and every one of them has finished.
C1_MarkersDrainBeforeVersions ==
    \A b \in JobsOf("Version") :
        /\ ~(pc = "deleteMarkers" /\ vPages = jobs[b].input.Key.page)
        /\ \A a \in JobsOf("Marker") :
               jobs[a].input.Key.page = jobs[b].input.Key.page
                   => jobs[a].st = "done"

\* A version deletion is in flight on a page that also held delete markers.
C1_Witness ==
    /\ pc = "deleteVersions"
    /\ page.markers > 0
    /\ \E b \in JobsOf("Version") :
           jobs[b].st = "calling" /\ jobs[b].input.Key.page = vPages

\* C2: the plain-object listing starts, and a plain-object deletion exists,
\* only after the versions listing has delivered its last page and every
\* marker and version deletion of every page has been issued and finished.
C2_ObjectsAfterAllVersions ==
    (\/ pc \in {"ListObjectsV2Pages", "deleteObjects"}
     \/ oPages > 0
     \/ listErr = "objects"
     \/ JobsOf("Object") # {})
        => /\ vLast
           /\ \A k \in JobsOf("Marker") \cup JobsOf("Version") :
                  ~Unfinished(jobs[k])
           /\ \A e \in pending : e.kind = "Object"

\* A plain-object deletion is in flight after a versions listing of several
\* pages.
C2_Witness ==
    /\ vPages > 1
    /\ \E k \in JobsOf("Object") : jobs[k].st = "calling"

\* C3: once DeleteBucket has been issued, no deletion goroutine has a
\* DeleteObject call in flight or still to make, and no listed entry is
\* still waiting for its delete call.
C3_NothingInFlightAtDeleteBucket ==
    bucketCalls > 0
        => /\ \A k \in DOMAIN jobs : ~Unfinished(jobs[k])
           /\ pending = {}

\* DeleteBucket is issued after a plain-object phase that deleted something.
C3_Witness ==
    /\ bucketCalls = 1
    /\ oPages > 0
    /\ page.objects > 0

\* C4: DeleteBucket is issued at most once in a run, and exactly once in a
\* run that reaches Done or that received a DeleteBucket result.
C4_DeleteBucketOnce ==
    /\ bucketCalls <= 1
    /\ pc = "Done" => bucketCalls = 1
    /\ bucketResult # "none" => bucketCalls = 1

\* A run ends in Done after its one DeleteBucket call.
C4_Witness == pc = "Done" /\ bucketCalls = 1

\* C5: a deletion goroutine whose DeleteObject call has failed does not bring
\* the run down: it retries or returns, whatever the kind of its entry.
C5_FailedJobDoesNotAbort ==
    /\ \A k \in DOMAIN jobs : jobs[k].fails > 0 => jobs[k].st # "panicking"
    /\ pc # "Panic"

\* C6: after a listing call has returned an error the run is in Fatal, and
\* no delete call and no DeleteBucket call is issued.
C6_ListingErrorIsFatal ==
    listErr # "none"
        => /\ pc = "Fatal"
           /\ exitCode = 1
           /\ bucketCalls = 0
           /\ InFlight = {}

\* C7: a failed DeleteBucket call ends the run in Fatal with exit status 1
\* after that one call, and a run is in Done, with exit status 0, only when
\* DeleteBucket succeeded.
C7_DeleteBucketFailureIsFatal ==
    /\ bucketResult = "err"
           => pc = "Fatal" /\ exitCode = 1 /\ bucketCalls = 1
    /\ pc = "Done" => exitCode = 0 /\ bucketResult = "ok"
    /\ exitCode = 0 => pc = "Done"

\* DeleteBucket failed and the run is in Fatal.
C7_Witness == bucketResult = "err" /\ pc = "Fatal" /\ bucketCalls = 1

\* C8: every listed entry has exactly one deletion goroutine: no two
\* goroutines share an entry, a finished launch loop has left one goroutine
\* for each entry of its slice, and when the run has ended every listed entry
\* has had a delete attempt.
C8_OneJobPerEntry ==
    /\ \A a, b \in DOMAIN jobs :
           jobs[a].input.Key = jobs[b].input.Key => a = b
    /\ \A kind \in Kinds :
           (pc = PcOf(kind) /\ i >= Count(kind))
               => \A idx \in 1..Count(kind) :
                      \E k \in DOMAIN jobs :
                          jobs[k].input.Key = Entry(kind, PageNo(kind), idx)
    /\ pc \in Terminal => pending = {}

\* C9: a goroutine whose DeleteObject call has succeeded has finished with
\* that call: one attempt more than its failures, one success, no attempt
\* after it.
C9_KFailuresThenSuccess ==
    \A k \in DOMAIN jobs :
        jobs[k].oks > 0
            => /\ jobs[k].st = "done"
               /\ jobs[k].oks = 1
               /\ jobs[k].attempts = jobs[k].fails + 1

\* C10: the DeleteObject calls in flight never outnumber the worker count.
C10_BoundedConcurrency == Cardinality(InFlight) <= WorkerCount


\* --------------------------------------------------------- further claims
PhasePcs == {"deleteMarkers", "deleteVersions", "deleteObjects"}

WgId(w) == [kind |-> w.kind, page |-> w.page]

\* C11: when a phase's Wait returns, the phase has launched one goroutine
\* for every entry of its slice and each of them has made at least one
\* DeleteObject call and has none left to make.
C11_EveryJobAttempted ==
    [][(pc \in PhasePcs /\ pc' # pc /\ pc' # "Panic")
          => /\ \A kind \in Kinds :
                    pc = PcOf(kind)
                        => Cardinality({k \in DOMAIN jobs :
                                          jobs[k].wgOf = WgId(wg)}) = Count(kind)
             /\ \A k \in DOMAIN jobs :
                    jobs[k].attempts >= 1 /\ ~Unfinished(jobs[k])]_vars

\* The Wait of a version phase with as many goroutines as a page can hold
\* has returned, and nothing listed is left without a delete call.
C11_Witness ==
    /\ pc \in {"ListObjectVersionsPages", "ListObjectsV2Pages"}
    /\ page.versions = MaxEntries
    /\ page.versions > WorkerCount
    /\ pending = {}

\* C12: while no page has held an entry there is no deletion goroutine,
\* hence no DeleteObject call; such a run issues DeleteBucket at most once,
\* does not crash, and is in Done exactly when its one DeleteBucket call
\* succeeded.
C12_EmptyBucket ==
    ~listedAny
        => /\ jobs = <<>>
           /\ pending = {}
           /\ pc # "Panic"
           /\ bucketCalls <= 1
           /\ pc = "Done" <=> bucketResult = "ok"
           /\ bucketResult = "ok" => bucketCalls = 1

\* Both listings ran to their end without an entry and the run is in Done.
C12_Witness ==
    /\ ~listedAny
    /\ vPages > 0
    /\ oPages > 0
    /\ listErr = "none"
    /\ pc = "Done"

\* C13: the callback is at work on one page at a time: while the process
\* runs, unfinished deletions belong to the page and phase at hand, the next page is asked for only
\* after the page's phases have drained and only if it was not the last, a
\* listing that returned no error ends only behind its last page, and a
\* phase with an empty slice passes its Wait at once.
C13_PagesInOrder ==
    /\ \A k \in DOMAIN jobs :
           Running /\ Unfinished(jobs[k])
               => /\ pc = PcOf(jobs[k].deleteType)
                  /\ jobs[k].input.Key.page = PageNo(jobs[k].deleteType)
    /\ pc = "ListObjectVersionsPages" /\ vPages > 0 => ~page.last
    /\ pc = "ListObjectsV2Pages" /\ oPages > 0 => ~page.last
    /\ pc = "ListObjectsV2Pages" => vLast
    /\ (pc = "deleteBucket" \/ bucketCalls > 0) /\ listErr = "none"
           => oPages > 0 /\ page.last
    /\ pc = "deleteMarkers" /\ page.markers = 0 => ENABLED WaitMarkers
    /\ pc = "deleteVersions" /\ page.versions = 0 => ENABLED WaitVersions
    /\ pc = "deleteObjects" /\ page.objects = 0 => ENABLED WaitObjects

\* An empty first page has passed both barriers and the listing goes on to
\* its second page.
C13_Witness ==
    /\ pc = "deleteMarkers"
    /\ vPages = 2
    /\ ~listedAny

\* C14: under fair scheduling every run ends, in Done or with a non-zero
\* exit status; main therefore stays in no phase for ever: each Wait returns
\* or the process ends.
C14_RunTerminates == <>(pc = "Done" \/ exitCode > 0)

\* A run over the full number of pages, with entries to delete, is in Done.
C14_Witness ==
    /\ pc = "Done"
    /\ vPages = MaxPages
    /\ oPages = MaxPages
    /\ listedAny

\* C15: a goroutine that gave up after failing on every attempt has written
\* one warning.
C15_OneWarningPerAbandonedJob ==
    \A k \in DOMAIN jobs :
        jobs[k].st = "done" /\ jobs[k].oks = 0 => jobs[k].warns = 1

\* C16: with the bucket name missing, or the region unresolved, main is in
\* Fatal with exit status 1 right after the check, and no listing, delete or
\* DeleteBucket call has been made.
C16_UsageErrorIsFatal ==
    /\ bucketName = "unknown" /\ pc # "main"
           => pc = "Fatal" /\ exitCode = 1 /\ bucketRegion = ""
    /\ bucketRegion = "unknown" => pc = "Fatal" /\ exitCode = 1
    /\ bucketName = "unknown" \/ bucketRegion = "unknown"
           => /\ vPages = 0
              /\ oPages = 0
              /\ listErr = "none"
              /\ jobs = <<>>
              /\ bucketCalls = 0

\* The region lookup failed for a named bucket and the run is in Fatal.
C16_Witness ==
    /\ bucketName = BucketName
    /\ bucketRegion = "unknown"
    /\ pc = "Fatal"

\* C17: a deleteWorker makes at most 4 DeleteObject calls for a job and none
\* after the job's first successful call.
C17_WorkerStopsAfterSuccess ==
    \A w \in DOMAIN workers :
        LET c == workers[w].cur IN
          /\ c.attempts <= WorkerAttempts
          /\ c.oks > 0 => c.oks = 1 /\ c.attempts = c.fails + 1

\* C18: what a goroutine does after its DeleteObject call returned is the
\* same with the verbosity flag on and off.
C18_VerbosityOnlyLogs ==
    \A k \in DOMAIN jobs :
        jobs[k].st = "calling"
            => SuccessOutcome(jobs[k], TRUE) = SuccessOutcome(jobs[k], FALSE)

\* C19: the counter of the WaitGroup in use is the number of its goroutines
\* that have not left deleteS3Object, it is never negative, and no goroutine
\* of a WaitGroup whose Wait has returned is still at work.
C19_WaitGroupCounter ==
    /\ wg.n >= 0
    /\ wg.n = Cardinality({k \in DOMAIN jobs :
                             jobs[k].wgOf = WgId(wg) /\ Unfinished(jobs[k])})
    /\ \A k \in DOMAIN jobs : Unfinished(jobs[k]) => jobs[k].wgOf = WgId(wg)

\* One goroutine of the WaitGroup has returned and another is still at work.
C19_Witness ==
    /\ wg.n = 1
    /\ \E k \in DOMAIN jobs : jobs[k].wgOf = WgId(wg) /\ jobs[k].st = "done"

\* C20: every DeleteObject call of a goroutine was given the run's bucket
\* and the key and version id of the listed entry the goroutine was launched
\* for, the same on every attempt, and no two goroutines share an entry.
C20_TargetsAreListedEntries ==
    /\ \A k \in DOMAIN jobs :
         LET j == jobs[k]
             e == j.input.Key
         IN /\ Cardinality(j.targets) <= 1
            /\ j.attempts > 0 => j.targets # {}
            /\ e.kind = j.deleteType
            /\ e.page \in 1..PageNo(e.kind)
            /\ e.idx >= 1
            /\ (pc = PcOf(e.kind) /\ e.page = PageNo(e.kind))
                   => e.idx <= Count(e.kind)
            /\ \A t \in j.targets :
                   /\ t.Bucket = bucketName
                   /\ t.Key = e
                   /\ t.VersionId = IF e.kind = "Object"
                                    THEN {}
                                    ELSE {VersionIdOf(e.kind, e.page, e.idx)}
    /\ \A a, b \in DOMAIN jobs :
           a # b => jobs[a].input.Key # jobs[b].input.Key

\* The second entry of a page is deleted again after a failed attempt while
\* the goroutine of the first entry exists.
C20_Witness ==
    \E k \in DOMAIN jobs :
        /\ jobs[k].attempts = 2
        /\ jobs[k].st = "calling"
        /\ jobs[k].input.Key.idx = 2

====
